---- MODULE Spec2Model ----
(***************************************************************************)
(* termchess: the dense board (src/board.rs), the compact bit board        *)
(* (src/bit_board.rs) and the per-piece move generator (src/board.rs).     *)
(*                                                                         *)
(* An Option<T> is modelled as a set with at most one element: None is {}  *)
(* and Some(x) is {x}.  A u64 mask is modelled as the set of its set bit   *)
(* positions.  A String is modelled as the sequence of its characters.     *)
(***************************************************************************)
EXTENDS Integers, Sequences, FiniteSets, TLC

VARIABLES
    board,            \* the dense Board value
    prev,             \* the board operated on as it was before the last operation
    last,             \* the last operation and its arguments
    fault,            \* "none", "wrapped" (release build) or "panic" (debug build)
    overflow_checks,  \* TRUE: integer overflow panics; FALSE: it wraps
    null_is_white,    \* what Piece::Null.is_white() answers
    gen,              \* the Vec<Square> returned by generate_piece_moves
    bits,             \* the BitBoard value
    fen,              \* the text the board was parsed from, <<>> for blank()
    nsteps            \* operations performed so far

vars == <<board, prev, last, fault, overflow_checks, null_is_white, gen, bits, fen, nsteps>>

----------------------------------------------------------------------------
(* Bounds *)

MaxApply == 2
MaxPlace == 1
MaxBitSteps == 3

----------------------------------------------------------------------------
(* Primitives *)

Squares == 0 .. 63

WhitePieces == {"PawnWhite", "KnightWhite", "BishopWhite",
                "RookWhite", "QueenWhite", "KingWhite"}

BlackPieces == {"PawnBlack", "KnightBlack", "BishopBlack",
                "RookBlack", "QueenBlack", "KingBlack"}

Pieces == WhitePieces \cup BlackPieces

Null == "Null"

None == {}

Some(x) == {x}

Unwrap(opt) == CHOOSE x \in opt : TRUE

\* Piece::is_white; the answer for Piece::Null is left open.
is_white(p) == IF p = Null THEN null_is_white ELSE p \in WhitePieces

\* Piece::from_char
from_char(c) ==
    CASE c = "P" -> Some("PawnWhite")   [] c = "p" -> Some("PawnBlack")
      [] c = "N" -> Some("KnightWhite") [] c = "n" -> Some("KnightBlack")
      [] c = "B" -> Some("BishopWhite") [] c = "b" -> Some("BishopBlack")
      [] c = "R" -> Some("RookWhite")   [] c = "r" -> Some("RookBlack")
      [] c = "Q" -> Some("QueenWhite")  [] c = "q" -> Some("QueenBlack")
      [] c = "K" -> Some("KingWhite")   [] c = "k" -> Some("KingBlack")
      [] OTHER -> None

\* to_board_square: an i8 index to a validated Square
to_board_square(i) == IF i \in Squares THEN Some(i) ELSE None

\* u8::try_from(i8).ok()
u8_try_from(i) == IF i >= 0 THEN Some(i) ELSE None

FileChars == <<"a", "b", "c", "d", "e", "f", "g", "h">>

RankChars == <<"1", "2", "3", "4", "5", "6", "7", "8">>

IndexOf(seq, c) == CHOOSE i \in 1 .. Len(seq) : seq[i] = c

\* square_from_algebraic, on a well-formed two character square name
square_from_algebraic(s) ==
    (IndexOf(RankChars, s[2]) - 1) * 8 + (IndexOf(FileChars, s[1]) - 1)

----------------------------------------------------------------------------
(* Dense board: src/board.rs *)

blank ==
    [ pieces                      |-> [s \in Squares |-> Null],
      white_to_move               |-> TRUE,
      en_pessant_square           |-> None,
      can_white_castle_king_side  |-> TRUE,
      can_white_castle_queen_side |-> TRUE,
      can_black_castle_king_side  |-> TRUE,
      can_black_castle_queen_side |-> TRUE,
      half_move_clock             |-> 0,
      full_move_counter           |-> 0 ]

\* Board::at: slice get, None outside the array
at(b, square) == IF square \in Squares THEN Some(b.pieces[square]) ELSE None

\* Board::is_empty
is_empty(b, square) == square \in Squares /\ b.pieces[square] = Null

\* Board::place
place(b, piece, sq) == [b EXCEPT !.pieces[sq] = piece]

\* Board::clear
clear(b, square) == place(b, Null, square)


\* Board::apply, lines 217-218: the piece leaves `from` and lands on `to`
move_piece(b, p, from, to) ==
    [b EXCEPT !.pieces = [[@ EXCEPT ![from] = Null] EXCEPT ![to] = p]]

\* Board::apply, line 221
is_pawn_move(p) == p = "PawnWhite" \/ p = "PawnBlack"

\* set_half_clock with the capture test dropped
set_half_clock_no_capture(b, p, is_capture) ==
    IF is_pawn_move(p)
    THEN [b EXCEPT !.half_move_clock = 0]
    ELSE [b EXCEPT !.half_move_clock = @ + 1]

\* Board::apply, lines 222-226: the half move clock
set_half_clock(b, p, is_capture) ==
    IF is_pawn_move(p) \/ is_capture
    THEN [b EXCEPT !.half_move_clock = 0]
    ELSE [b EXCEPT !.half_move_clock = @ + 1]

\* Board::apply, line 230: `to - from` on u8 leaves the type when to < from
sub_overflows(from, to) == to < from

\* Board::apply, line 230: the wrapped u8 difference
sub_u8(from, to) == (to - from) % 256

\* Board::apply, lines 229-235: the en pessant square
set_en_pessant(b, p, from, to) ==
    IF is_pawn_move(p)
    THEN IF sub_u8(from, to) = 16
         THEN [b EXCEPT !.en_pessant_square = Some(from + 8)]
         ELSE b
    ELSE [b EXCEPT !.en_pessant_square = None]

\* Board::apply, lines 240-243: whose turn it is, and the move counter
set_turn(b) ==
    LET t == [b EXCEPT !.white_to_move = ~ @]
    IN  IF t.white_to_move
        THEN [t EXCEPT !.full_move_counter = @ + 1]
        ELSE t

\* Board::apply.  The result is the board as the call leaves it and whether
\* the call overflowed: with overflow checks the subtraction of line 230
\* panics and the statements after it never run.
apply(b, from, to, checks) ==
    LET is_capture == ~ is_empty(b, to)
        opt        == at(b, from)
    IN  IF opt = None
        THEN [board |-> b, fault |-> "none"]
        ELSE LET p  == Unwrap(opt)
                 b1 == move_piece(b, p, from, to)
                 b2 == set_half_clock(b1, p, is_capture)
             IN  IF is_pawn_move(p) /\ sub_overflows(from, to) /\ checks
                 THEN [board |-> b2, fault |-> "panic"]
                 ELSE [board |-> set_turn(set_en_pessant(b2, p, from, to)),
                       fault |-> IF is_pawn_move(p) /\ sub_overflows(from, to)
                                 THEN "wrapped" ELSE "none"]

----------------------------------------------------------------------------
(* Board::from_fen.  The text is given split into its whitespace separated *)
(* fields; the placement field is given split at '/'.                      *)

Digits == <<"0", "1", "2", "3", "4", "5", "6", "7", "8", "9">>

IsDigit(c) == \E i \in 1 .. 10 : Digits[i] = c

DigitVal(c) == IndexOf(Digits, c) - 1

RECURSIVE parse_u32_from(_, _, _)
parse_u32_from(s, i, acc) ==
    IF i > Len(s) THEN acc
    ELSE parse_u32_from(s, i + 1, acc * 10 + DigitVal(s[i]))

\* str::parse::<u32>, for texts shorter than the width of u32
parse_u32(s) ==
    IF Len(s) > 0 /\ \A i \in 1 .. Len(s) : IsDigit(s[i])
    THEN Some(parse_u32_from(s, 1, 0))
    ELSE None

Failed == [ok |-> FALSE, board |-> blank]

Parsed(b) == [ok |-> TRUE, board |-> b]

\* from_fen, lines 63-78: one rank of the placement
RECURSIVE parse_rank(_, _, _, _, _, _)
parse_rank(b, rank, chars, i, file, checks) ==
    IF i > Len(chars) THEN Parsed(b)
    ELSE LET c == chars[i]
         IN  IF IsDigit(c) /\ c # "0" /\ c # "9"
             THEN parse_rank(b, rank, chars, i + 1, file + DigitVal(c), checks)
             ELSE IF from_char(c) = None THEN Failed
             ELSE LET square == rank * 8 + file
                  IN  IF square > 255 /\ checks THEN Failed
                      ELSE IF (square % 256) \notin Squares THEN Failed
                      ELSE parse_rank(place(b, Unwrap(from_char(c)), square % 256),
                                      rank, chars, i + 1, file + 1, checks)

\* from_fen, lines 58-79: the placement, rank 8 first
RECURSIVE parse_placement(_, _, _, _)
parse_placement(b, ranks, rank_idx, checks) ==
    IF rank_idx >= Len(ranks) THEN Parsed(b)
    ELSE IF rank_idx > 7 /\ checks THEN Failed
    ELSE LET r == parse_rank(b, (7 - rank_idx) % 256, ranks[rank_idx + 1], 1, 0, checks)
         IN  IF r.ok THEN parse_placement(r.board, ranks, rank_idx + 1, checks)
             ELSE Failed

contains(s, c) == \E i \in 1 .. Len(s) : s[i] = c

\* read_castling with each right set from the presence of its letter
read_castling_exact(b, castling) ==
    [b EXCEPT
       !.can_white_castle_king_side  = contains(castling, "K"),
       !.can_white_castle_queen_side = contains(castling, "Q"),
       !.can_black_castle_king_side  = contains(castling, "k"),
       !.can_black_castle_queen_side = contains(castling, "q")]

\* from_fen, lines 88-101: a letter turns its right on, nothing turns one off
read_castling(b, castling) ==
    [b EXCEPT
       !.can_white_castle_king_side  = IF contains(castling, "K") THEN TRUE ELSE @,
       !.can_white_castle_queen_side = IF contains(castling, "Q") THEN TRUE ELSE @,
       !.can_black_castle_king_side  = IF contains(castling, "k") THEN TRUE ELSE @,
       !.can_black_castle_queen_side = IF contains(castling, "q") THEN TRUE ELSE @]

\* from_fen, lines 103-109
read_en_pessant(b, field) ==
    IF field = <<"-">>
    THEN [b EXCEPT !.en_pessant_square = None]
    ELSE [b EXCEPT !.en_pessant_square = Some(square_from_algebraic(field))]

\* Board::from_fen
from_fen(fields, checks) ==
    IF Len(fields) > 6 \/ Len(fields) < 4 THEN Failed
    ELSE LET r == parse_placement(blank, fields[1], 0, checks)
         IN  IF ~ r.ok THEN Failed
             ELSE IF fields[2] \notin {<<"w">>, <<"b">>} THEN Failed
             ELSE IF Len(fields) < 6 THEN Failed \* fields[4], fields[5] index out of bounds
             ELSE IF parse_u32(fields[5]) = None \/ parse_u32(fields[6]) = None THEN Failed
             ELSE LET b1 == [r.board EXCEPT !.white_to_move = (fields[2] = <<"w">>)]
                      b2 == read_castling(b1, fields[3])
                      b3 == read_en_pessant(b2, fields[4])
                  IN  Parsed([b3 EXCEPT
                                !.half_move_clock   = Unwrap(parse_u32(fields[5])),
                                !.full_move_counter = Unwrap(parse_u32(fields[6]))])

----------------------------------------------------------------------------
(* Move generation: src/board.rs, lines 264-509 *)

\* the .filter_map(to_board_square) of lines 323 and 332
on_board(s) == SelectSeq(s, LAMBDA x : to_board_square(x) # None)

\* the filter_map of lines 362-367 and 393-398, on (has_space, square) pairs
with_space(s) ==
    LET kept == SelectSeq(s, LAMBDA e : e[1] /\ u8_try_from(e[2]) # None)
    IN  [i \in 1 .. Len(kept) |-> kept[i][2]]

\* lines 333-336: a pawn captures a piece of the other colour
pawn_captures(b, piece, square) ==
    LET o == at(b, square)
    IN  o # None /\ Unwrap(o) # Null /\ is_white(Unwrap(o)) # is_white(piece)

\* lines 369-373: where a knight may land
knight_lands(b, piece, square) ==
    LET o == at(b, square)
    IN  \/ o = Some(Null)
        \/ o # None /\ is_white(Unwrap(o)) # is_white(piece)

\* lines 400-404: where a king may land
king_lands(b, piece, square) ==
    LET o == at(b, square)
    IN  \/ o # None /\ is_white(Unwrap(o)) # is_white(piece)
        \/ o = None

\* lines 299-339
pawn_moves(b, piece, sq) ==
    LET rank       == sq \div 8
        file       == sq % 8
        direction  == IF is_white(piece) THEN 1 ELSE -1
        new_rank   == rank + direction
        step       == IF new_rank < 8 /\ new_rank > 0
                      THEN <<new_rank * 8 + file>> ELSE <<>>
        candidates == IF (is_white(piece) /\ rank = 1) \/ (~ is_white(piece) /\ rank = 6)
                      THEN Append(step, (rank + 2 * direction) * 8 + file)
                      ELSE step
        moves      == SelectSeq(on_board(candidates), LAMBDA x : is_empty(b, x))
        captures   == SelectSeq(on_board(<<(rank + direction) * 8 + file + 1,
                                           (rank + direction) * 8 + file - 1>>),
                                LAMBDA x : pawn_captures(b, piece, x))
    IN  moves \o captures

\* lines 340-375
knight_moves(b, piece, sq) ==
    LET rank == sq \div 8
        file == sq % 8
    IN  SelectSeq(with_space(<<
            <<rank < 6 /\ file < 7, (rank + 2) * 8 + file + 1>>,
            <<rank < 6 /\ file > 0, (rank + 2) * 8 + file - 1>>,
            <<rank > 2 /\ file < 7, (rank - 2) * 8 + file + 1>>,
            <<rank > 2 /\ file > 0, (rank - 2) * 8 + file - 1>>,
            <<rank < 7 /\ file > 2, (rank + 1) * 8 + file - 2>>,
            <<rank > 0 /\ file > 2, (rank - 1) * 8 + file - 2>>,
            <<rank < 7 /\ file < 6, (rank + 1) * 8 + file + 2>>,
            <<rank > 0 /\ file < 6, (rank - 1) * 8 + file + 2>> >>),
          LAMBDA x : knight_lands(b, piece, x))

\* lines 376-406
king_moves(b, piece, sq) ==
    LET rank   == sq \div 8
        file   == sq % 8
        left   == file > 0
        right  == file < 7
        top    == rank < 7
        bottom == rank > 0
    IN  SelectSeq(with_space(<<
            <<top /\ right,    (rank + 1) * 8 + file + 1>>,
            <<top /\ left,     (rank + 1) * 8 + file - 1>>,
            <<top,             (rank + 1) * 8 + file>>,
            <<left,            rank * 8 + file - 1>>,
            <<right,           rank * 8 + file + 1>>,
            <<bottom /\ right, (rank - 1) * 8 + file + 1>>,
            <<bottom /\ left,  (rank - 1) * 8 + file - 1>>,
            <<bottom,          (rank - 1) * 8 + file>> >>),
          LAMBDA x : king_lands(b, piece, x))

\* One `for` loop of orthogonal_moves (lines 423-436, 437-450, 451-464,
\* 465-478) and the loop of diagonal_moves (lines 490-506), over the squares
\* the loop visits, in order, from the i-th on.
RECURSIVE walk(_, _, _, _)
walk(b, piece, squares, i) ==
    IF i > Len(squares) THEN <<>>
    ELSE LET square == squares[i]
             o      == at(b, square)
         IN  IF o # None
             THEN IF is_white(Unwrap(o)) # is_white(piece) THEN <<square>> ELSE <<>>
             ELSE <<square>> \o walk(b, piece, squares, i + 1)

\* lines 418-481
orthogonal_moves(b, piece, sq) ==
    LET rank == sq \div 8
        file == sq % 8
    IN  walk(b, piece, [k \in 1 .. file |-> rank * 8 + (file - k)], 1)
        \o walk(b, piece, [k \in 1 .. (7 - file) |-> rank * 8 + (file + k)], 1)
        \o walk(b, piece, [k \in 1 .. rank |-> (rank - k) * 8 + file], 1)
        \o walk(b, piece, [k \in 1 .. (7 - rank) |-> (rank + k) * 8 + file], 1)

\* 7 - max(rank, file): the number of squares the loop of lines 490-506 visits
diagonal_len(rank, file) == IF rank > file THEN 7 - rank ELSE 7 - file

\* lines 483-509
diagonal_moves(b, piece, sq) ==
    LET rank == sq \div 8
        file == sq % 8
    IN  walk(b, piece,
             [k \in 1 .. diagonal_len(rank, file) |-> (rank + k) * 8 + (file + k)], 1)

\* lines 296-416
generate_piece_moves(b, piece, sq) ==
    CASE piece = Null -> <<>>
      [] piece \in {"PawnWhite", "PawnBlack"}     -> pawn_moves(b, piece, sq)
      [] piece \in {"KnightWhite", "KnightBlack"} -> knight_moves(b, piece, sq)
      [] piece \in {"KingWhite", "KingBlack"}     -> king_moves(b, piece, sq)
      [] piece \in {"RookWhite", "RookBlack"}     -> orthogonal_moves(b, piece, sq)
      [] piece \in {"BishopWhite", "BishopBlack"} -> diagonal_moves(b, piece, sq)
      [] piece \in {"QueenWhite", "QueenBlack"}   ->
            orthogonal_moves(b, piece, sq) \o diagonal_moves(b, piece, sq)

\* the k-th square of the scan of lines 268-270: rank 8 down to 1, file a to h
scan_square(k) == (7 - (k \div 8)) * 8 + (k % 8)

\* Board::generate_moves: the moves of the squares scanned from the k-th on
RECURSIVE generate_from(_, _)
generate_from(b, k) ==
    IF k > 63 THEN <<>>
    ELSE LET square == scan_square(k)
             piece  == b.pieces[square]
             here   == IF b.white_to_move = is_white(piece)
                       THEN LET targets == generate_piece_moves(b, piece, square)
                            IN  [i \in 1 .. Len(targets) |->
                                   [from |-> square, to |-> targets[i]]]
                       ELSE <<>>
         IN  here \o generate_from(b, k + 1)

\* Board::generate_moves
generate_moves(b) == generate_from(b, 0)

----------------------------------------------------------------------------
(* Compact board: src/bit_board.rs *)

MaskNames == {"pawns_white", "bishops_white", "knights_white", "rooks_white",
              "king_white", "queen_white", "pawns_black", "bishops_black",
              "knights_black", "rooks_black", "king_black", "queen_black"}

\* BitBoard::blank
bit_blank ==
    [ pawns_white   |-> {}, bishops_white |-> {}, knights_white |-> {},
      rooks_white   |-> {}, king_white    |-> {}, queen_white   |-> {},
      pawns_black   |-> {}, bishops_black |-> {}, knights_black |-> {},
      rooks_black   |-> {}, king_black    |-> {}, queen_black   |-> {},
      white_to_move |-> TRUE ]

\* 1u64 << square, for a shift below the width of u64
shl1(square) == {square}

\* BitBoard::clear: every mask is and-ed with !(1u64 << square)
bit_clear(bb, square) ==
    [f \in DOMAIN bb |-> IF f \in MaskNames THEN bb[f] \cap (Squares \ shl1(square))
                         ELSE bb[f]]

\* the mask BitBoard::place ors into, lines 128-141
mask_of(piece) ==
    CASE piece = "PawnWhite"   -> "pawns_white"
      [] piece = "KnightWhite" -> "knights_white"
      [] piece = "BishopWhite" -> "bishops_white"
      [] piece = "RookWhite"   -> "rooks_white"
      [] piece = "QueenWhite"  -> "queen_white"
      [] piece = "KingWhite"   -> "king_white"
      [] piece = "PawnBlack"   -> "pawns_black"
      [] piece = "KnightBlack" -> "knights_black"
      [] piece = "BishopBlack" -> "bishops_black"
      [] piece = "RookBlack"   -> "rooks_black"
      [] piece = "QueenBlack"  -> "queen_black"
      [] piece = "KingBlack"   -> "king_black"

\* bit_place without the clear of line 125
bit_place_no_clear(bb, piece, sq) ==
    [bb EXCEPT ![mask_of(piece)] = @ \cup shl1(sq)]

\* BitBoard::place
bit_place(bb, piece, sq) ==
    [bit_clear(bb, sq) EXCEPT ![mask_of(piece)] = @ \cup shl1(sq)]

\* `mask & (1u64 << square) >= 1`
bit_set(mask, square) == (mask \cap shl1(square)) # {}

\* BitBoard::at
bit_at(bb, square) ==
    CASE bit_set(bb.pawns_white, square)   -> Some("PawnWhite")
      [] bit_set(bb.pawns_black, square)   -> Some("PawnBlack")
      [] bit_set(bb.knights_white, square) -> Some("KnightWhite")
      [] bit_set(bb.knights_black, square) -> Some("KnightBlack")
      [] bit_set(bb.bishops_white, square) -> Some("BishopWhite")
      [] bit_set(bb.bishops_black, square) -> Some("BishopBlack")
      [] bit_set(bb.rooks_white, square)   -> Some("RookWhite")
      [] bit_set(bb.rooks_black, square)   -> Some("RookBlack")
      [] bit_set(bb.queen_white, square)   -> Some("QueenWhite")
      [] bit_set(bb.queen_black, square)   -> Some("QueenBlack")
      [] bit_set(bb.king_white, square)    -> Some("KingWhite")
      [] bit_set(bb.king_black, square)    -> Some("KingBlack")
      [] OTHER -> None

\* BitBoard::apply
bit_apply(bb, from, to) ==
    IF bit_at(bb, from) # None
    THEN bit_place(bit_clear(bb, from), Unwrap(bit_at(bb, from)), to)
    ELSE bb

----------------------------------------------------------------------------
(* The positions and moves the dense board is exercised with *)

Empty8 == <<"8">>

\* 8/4p3/8/8/8/8/4P3/N7 w KQkq - 0 1
FenPawns ==
    << <<Empty8, <<"4", "p", "3">>, Empty8, Empty8, Empty8, Empty8,
         <<"4", "P", "3">>, <<"N", "7">> >>,
       <<"w">>, <<"K", "Q", "k", "q">>, <<"-">>, <<"0">>, <<"1">> >>

\* 8/4p3/8/8/4P3/8/8/N7 b KQkq e3 2 5
FenAfterLeap ==
    << <<Empty8, <<"4", "p", "3">>, Empty8, Empty8, <<"4", "P", "3">>, Empty8,
         Empty8, <<"N", "7">> >>,
       <<"b">>, <<"K", "Q", "k", "q">>, <<"e", "3">>, <<"2">>, <<"5">> >>

InitFens == {FenPawns, FenAfterLeap}

\* a1, e2, e3, e4, e5, e6, e7, h8
MoveSquares == {0, 12, 20, 28, 36, 44, 52, 63}

\* the squares blockers are placed on: a1, a2, d4, d5, e5, h8
BlockSquares == {0, 8, 27, 35, 36, 63}

BlockPieces == {"PawnWhite", "PawnBlack"}

\* the squares the compact board is exercised on: a1, e5, h8
BitSquares == {0, 36, 63}

\* Piece::to_char
to_char(p) ==
    CASE p = "PawnWhite"   -> "P" [] p = "PawnBlack"   -> "p"
      [] p = "KnightWhite" -> "N" [] p = "KnightBlack" -> "n"
      [] p = "BishopWhite" -> "B" [] p = "BishopBlack" -> "b"
      [] p = "RookWhite"   -> "R" [] p = "RookBlack"   -> "r"
      [] p = "QueenWhite"  -> "Q" [] p = "QueenBlack"  -> "q"
      [] p = "KingWhite"   -> "K" [] p = "KingBlack"   -> "k"

\* the text of a position with the single piece p on square s, p's side to move
FenWith(p, s) ==
    LET file == s % 8
        text == (IF file > 0 THEN <<Digits[file + 1]>> ELSE <<>>)
                \o <<to_char(p)>>
                \o (IF file < 7 THEN <<Digits[8 - file]>> ELSE <<>>)
    IN  << [i \in 1 .. 8 |-> IF 8 - i = s \div 8 THEN text ELSE Empty8],
           IF p \in WhitePieces THEN <<"w">> ELSE <<"b">>,
           <<"K", "Q", "k", "q">>, <<"-">>, <<"0">>, <<"1">> >>

NoOp == [op |-> "new", piece |-> Null, from |-> 0, to |-> 0]

----------------------------------------------------------------------------
(* Dense board behaviours: a parsed position, then moves applied to it.    *)
(* The first move ranges over every pair of squares, the moves after it    *)
(* over the pairs of MoveSquares.                                          *)

Init ==
    /\ overflow_checks \in BOOLEAN
    /\ \E f \in InitFens :
          /\ from_fen(f, overflow_checks).ok
          /\ board = from_fen(f, overflow_checks).board
          /\ fen = f
    /\ prev = board
    /\ last = NoOp
    /\ fault = "none"
    /\ null_is_white = FALSE
    /\ gen = <<>>
    /\ bits = bit_blank
    /\ nsteps = 0

Apply(from, to) ==
    /\ fault # "panic"
    /\ nsteps < MaxApply
    /\ LET r == apply(board, from, to, overflow_checks)
       IN  /\ board' = r.board
           /\ fault' = r.fault
    /\ prev' = board
    /\ last' = [op |-> "apply", piece |-> Null, from |-> from, to |-> to]
    /\ nsteps' = nsteps + 1
    /\ UNCHANGED <<overflow_checks, null_is_white, gen, bits, fen>>

\* the squares the next move is drawn from
MoveRange == IF nsteps = 0 THEN Squares ELSE MoveSquares

Next == \E from \in MoveRange, to \in MoveRange : Apply(from, to)

Spec == Init /\ [][Next]_vars

----------------------------------------------------------------------------
(* Move generation behaviours: a parsed position with one piece on any     *)
(* square, blockers placed on it, and the moves generated from it.         *)

InitGen ==
    /\ overflow_checks = FALSE
    /\ null_is_white \in BOOLEAN
    /\ \E p \in Pieces, s \in Squares :
          /\ from_fen(FenWith(p, s), overflow_checks).ok
          /\ board = from_fen(FenWith(p, s), overflow_checks).board
          /\ fen = FenWith(p, s)
    /\ prev = board
    /\ last = NoOp
    /\ fault = "none"
    /\ gen = <<>>
    /\ bits = bit_blank
    /\ nsteps = 0

GenPlace(piece, sq) ==
    /\ nsteps < MaxPlace
    /\ board' = place(board, piece, sq)
    /\ prev' = board
    /\ last' = [op |-> "place", piece |-> piece, from |-> sq, to |-> sq]
    /\ nsteps' = nsteps + 1
    /\ gen' = <<>>
    /\ UNCHANGED <<fault, overflow_checks, null_is_white, bits, fen>>

Generate ==
    /\ last.op # "generate"
    /\ gen' = generate_moves(board)
    /\ prev' = board
    /\ last' = [op |-> "generate", piece |-> Null, from |-> 0, to |-> 0]
    /\ UNCHANGED <<board, fault, overflow_checks, null_is_white, bits, fen, nsteps>>

NextGen ==
    \/ \E piece \in BlockPieces, sq \in BlockSquares : GenPlace(piece, sq)
    \/ Generate

SpecGen == InitGen /\ [][NextGen]_vars

----------------------------------------------------------------------------
(* Compact board behaviours: blank, then place, clear and apply *)

InitBit ==
    /\ bits = bit_blank
    /\ fen = <<>>
    /\ board = blank
    /\ prev = bits
    /\ last = NoOp
    /\ fault = "none"
    /\ overflow_checks = FALSE
    /\ null_is_white = FALSE
    /\ gen = <<>>
    /\ nsteps = 0

BitStep(op, piece, from, to, bb) ==
    /\ nsteps < MaxBitSteps
    /\ bits' = bb
    /\ prev' = bits
    /\ last' = [op |-> op, piece |-> piece, from |-> from, to |-> to]
    /\ nsteps' = nsteps + 1
    /\ UNCHANGED <<board, fault, overflow_checks, null_is_white, gen, fen>>

BitPlace(piece, sq) == BitStep("bit_place", piece, sq, sq, bit_place(bits, piece, sq))

BitClear(sq) == BitStep("bit_clear", Null, sq, sq, bit_clear(bits, sq))

BitApply(from, to) == BitStep("bit_apply", Null, from, to, bit_apply(bits, from, to))

NextBit ==
    \/ \E piece \in Pieces, sq \in BitSquares : BitPlace(piece, sq)
    \/ \E sq \in BitSquares : BitClear(sq)
    \/ \E from \in BitSquares, to \in BitSquares : BitApply(from, to)

SpecBit == InitBit /\ [][NextBit]_vars

----------------------------------------------------------------------------
(* BitBoard::from_fen_string: src/bit_board.rs, lines 50-106 *)

BitFailed == [ok |-> FALSE, board |-> bit_blank]

BitParsed(bb) == [ok |-> TRUE, board |-> bb]

\* from_fen_string, lines 78-93: one rank of the placement.  A square of 64
\* or more makes the shift of BitBoard::clear overflow: it panics with
\* overflow checks and is taken modulo 64 without.
RECURSIVE bit_parse_rank(_, _, _, _, _, _)
bit_parse_rank(bb, rank, chars, i, file, checks) ==
    IF i > Len(chars) THEN BitParsed(bb)
    ELSE LET c == chars[i]
         IN  IF IsDigit(c) /\ c # "0" /\ c # "9"
             THEN bit_parse_rank(bb, rank, chars, i + 1, file + DigitVal(c), checks)
             ELSE IF from_char(c) = None THEN BitFailed
             ELSE LET square == rank * 8 + file
                  IN  IF (square > 255 \/ square % 256 > 63) /\ checks THEN BitFailed
                      ELSE bit_parse_rank(
                               bit_place(bb, Unwrap(from_char(c)), (square % 256) % 64),
                               rank, chars, i + 1, file + 1, checks)

\* from_fen_string, lines 73-94: the placement, rank 8 first
RECURSIVE bit_parse_placement(_, _, _, _)
bit_parse_placement(bb, ranks, rank_idx, checks) ==
    IF rank_idx >= Len(ranks) THEN BitParsed(bb)
    ELSE IF rank_idx > 7 /\ checks THEN BitFailed
    ELSE LET r == bit_parse_rank(bb, (7 - rank_idx) % 256, ranks[rank_idx + 1],
                                 1, 0, checks)
         IN  IF r.ok THEN bit_parse_placement(r.board, ranks, rank_idx + 1, checks)
             ELSE BitFailed

\* BitBoard::from_fen_string
from_fen_string(fields, checks) ==
    IF Len(fields) > 6 \/ Len(fields) < 4 THEN BitFailed
    ELSE LET r == bit_parse_placement(bit_blank, fields[1], 0, checks)
         IN  IF ~ r.ok THEN BitFailed
             ELSE IF fields[2] \notin {<<"w">>, <<"b">>} THEN BitFailed
             ELSE BitParsed([r.board EXCEPT !.white_to_move = (fields[2] = <<"w">>)])

----------------------------------------------------------------------------
(* Parser behaviours: a text of well-formed fields, cut or padded to any   *)
(* number of fields, is given to one of the two parsers.                   *)

MaxFields == 7

\* the six-field records the texts are cut from
FenRecords == InitFens \cup {FenWith(p, s) : p \in Pieces, s \in MoveSquares}

\* the first n fields of a record, padded with further fields beyond the sixth
FenText(record, n) == [i \in 1 .. n |-> IF i <= 6 THEN record[i] ELSE <<"1">>]

InitFen ==
    /\ overflow_checks \in BOOLEAN
    /\ \E record \in FenRecords, n \in 0 .. MaxFields : fen = FenText(record, n)
    /\ board = blank
    /\ bits = bit_blank
    /\ prev = board
    /\ last = NoOp
    /\ fault = "none"
    /\ null_is_white = FALSE
    /\ gen = <<>>
    /\ nsteps = 0

ParseDense ==
    /\ last.op = "new"
    /\ LET r == from_fen(fen, overflow_checks)
       IN  /\ board' = r.board
           /\ fault' = IF r.ok THEN "none" ELSE "panic"
    /\ last' = [op |-> "from_fen", piece |-> Null, from |-> 0, to |-> 0]
    /\ nsteps' = nsteps + 1
    /\ UNCHANGED <<prev, overflow_checks, null_is_white, gen, bits, fen>>

ParseBit ==
    /\ last.op = "new"
    /\ LET r == from_fen_string(fen, overflow_checks)
       IN  /\ bits' = r.board
           /\ fault' = IF r.ok THEN "none" ELSE "panic"
    /\ last' = [op |-> "from_fen_string", piece |-> Null, from |-> 0, to |-> 0]
    /\ nsteps' = nsteps + 1
    /\ UNCHANGED <<board, prev, overflow_checks, null_is_white, gen, fen>>

NextFen == ParseDense \/ ParseBit

SpecFen == InitFen /\ [][NextFen]_vars

----------------------------------------------------------------------------
(* Board::to_fen: src/board.rs, lines 119-201 *)

\* square_to_algebraic
square_to_algebraic(square) ==
    <<FileChars[(square % 8) + 1], RankChars[(square \div 8) + 1]>>

\* char::from_digit(n, 10)
from_digit(n) == IF n \in 0 .. 9 THEN Some(Digits[n + 1]) ELSE None

\* String::push of an Option<char> that is Some; nothing is pushed on None,
\* where the unwrap panics
SetToSeq(opt) == IF opt = None THEN <<>> ELSE <<Unwrap(opt)>>

\* to_fen, lines 140-143 and 149-151: the run of empty squares, if any
empty_run(consequitive_empty) ==
    IF consequitive_empty > 0 THEN <<Unwrap(from_digit(consequitive_empty))>> ELSE <<>>

\* to_fen, lines 133-151: the text of rank r from file f on
RECURSIVE to_fen_rank(_, _, _, _)
to_fen_rank(b, r, f, consequitive_empty) ==
    IF f > 7 THEN empty_run(consequitive_empty)
    ELSE LET o == at(b, r * 8 + f)
         IN  IF o = Some(Null) THEN to_fen_rank(b, r, f + 1, consequitive_empty + 1)
             ELSE IF o # None
                  THEN empty_run(consequitive_empty) \o <<to_char(Unwrap(o))>>
                       \o to_fen_rank(b, r, f + 1, 0)
                  ELSE to_fen_rank(b, r, f + 1, consequitive_empty)

\* to_fen, lines 163-183: the castling field
to_fen_castling(b) ==
    (IF b.can_white_castle_king_side THEN <<"K">> ELSE <<>>)
    \o (IF b.can_white_castle_queen_side THEN <<"Q">> ELSE <<>>)
    \o (IF b.can_black_castle_king_side THEN <<"k">> ELSE <<>>)
    \o (IF b.can_black_castle_queen_side THEN <<"q">> ELSE <<>>)
    \o (IF /\ ~ b.can_white_castle_king_side
           /\ ~ b.can_white_castle_queen_side
           /\ ~ b.can_black_castle_king_side
           /\ ~ b.can_black_castle_queen_side
        THEN <<"-">> ELSE <<>>)

\* Board::to_fen: the six fields, the placement split at '/'.  The unwrap of
\* lines 196 and 198 panics on a clock or a counter above 9.
to_fen(b) ==
    [ ok     |-> from_digit(b.half_move_clock) # None
                 /\ from_digit(b.full_move_counter) # None,
      fields |-> << [i \in 1 .. 8 |-> to_fen_rank(b, 8 - i, 0, 0)],
                    IF b.white_to_move THEN <<"w">> ELSE <<"b">>,
                    to_fen_castling(b),
                    IF b.en_pessant_square = None THEN <<"-">>
                    ELSE square_to_algebraic(Unwrap(b.en_pessant_square)),
                    SetToSeq(from_digit(b.half_move_clock)),
                    SetToSeq(from_digit(b.full_move_counter)) >> ]

----------------------------------------------------------------------------
(* Castling rights behaviours: blank() or a parsed position with any       *)
(* castling field, then place, clear and apply.                            *)

CastlingFields == {<<"-">>, <<"K">>, <<"Q", "k">>, <<"K", "Q", "k", "q">>}

\* the records of InitFens with each of the castling fields
RightsFens == {[f EXCEPT ![3] = c] : f \in InitFens, c \in CastlingFields}

\* a1, e2, e4, e7
EditSquares == {0, 12, 28, 52}

EditPieces == {"KingWhite", "RookBlack"}

InitRights ==
    /\ overflow_checks \in BOOLEAN
    /\ \/ board = blank /\ fen = <<>>
       \/ \E f \in RightsFens :
             /\ from_fen(f, overflow_checks).ok
             /\ board = from_fen(f, overflow_checks).board
             /\ fen = f
    /\ prev = board
    /\ last = NoOp
    /\ fault = "none"
    /\ null_is_white = FALSE
    /\ gen = <<>>
    /\ bits = bit_blank
    /\ nsteps = 0

Edit(op, piece, sq, b) ==
    /\ fault # "panic"
    /\ nsteps < MaxApply
    /\ board' = b
    /\ prev' = board
    /\ last' = [op |-> op, piece |-> piece, from |-> sq, to |-> sq]
    /\ nsteps' = nsteps + 1
    /\ UNCHANGED <<fault, overflow_checks, null_is_white, gen, bits, fen>>

Place(piece, sq) == Edit("place", piece, sq, place(board, piece, sq))

Clear(sq) == Edit("clear", Null, sq, clear(board, sq))

NextRights ==
    \/ \E piece \in EditPieces, sq \in EditSquares : Place(piece, sq)
    \/ \E sq \in EditSquares : Clear(sq)
    \/ \E from \in EditSquares, to \in EditSquares : Apply(from, to)

SpecRights == InitRights /\ [][NextRights]_vars

----------------------------------------------------------------------------
(* Properties of Board::apply, checked under Spec *)

Applied == last.op = "apply"

\* the piece on the `from` square before the move
Mover == prev.pieces[last.from]

AppliedFromOccupied == Applied /\ Mover # Null

\* a pawn of either colour advancing exactly two ranks on its file
TwoRankAdvance ==
    \/ Mover = "PawnWhite" /\ last.to = last.from + 16
    \/ Mover = "PawnBlack" /\ last.to = last.from - 16

\* C1: apply of a move whose from square holds no piece is a no-op: the
\* placement, side to move, en-passant target, half-move clock and
\* full-move counter are all as they were.
C1_ApplyFromEmptyIsNoOp ==
    (Applied /\ Mover = Null) => board = prev

\* C2: after apply of a move from an occupied square the en-passant target
\* is the square midway between from and to if the moved piece is a pawn of
\* either colour advancing exactly two ranks, and none after any other move.
C2_EnPessantTarget ==
    AppliedFromOccupied =>
        board.en_pessant_square =
            IF TwoRankAdvance THEN Some((last.from + last.to) \div 2) ELSE None

\* C3: every apply of a move from an occupied square toggles the side to
\* move, and the full-move counter grows by exactly 1 if the resulting side
\* to move is white and is unchanged otherwise.
C3_TurnAndCounter ==
    AppliedFromOccupied =>
        /\ board.white_to_move = ~ prev.white_to_move
        /\ board.full_move_counter =
              prev.full_move_counter + (IF board.white_to_move THEN 1 ELSE 0)

\* C4: after apply of a move from an occupied square the half-move clock is
\* 0 if the moved piece is a pawn or the destination square was non-empty
\* before the move, and the previous clock plus exactly 1 otherwise.
C4_HalfMoveClock ==
    AppliedFromOccupied =>
        board.half_move_clock =
            IF Mover \in {"PawnWhite", "PawnBlack"} \/ prev.pieces[last.to] # Null
            THEN 0
            ELSE prev.half_move_clock + 1

\* a knight moved onto an empty square of a position whose clock was running
C4_Witness ==
    /\ AppliedFromOccupied
    /\ Mover = "KnightWhite"
    /\ prev.pieces[last.to] = Null
    /\ prev.half_move_clock > 0
    /\ board.half_move_clock = prev.half_move_clock + 1

\* C5: apply completes without failure for every pair of in-range squares:
\* no arithmetic on the u8 square indices leaves the type.
C5_ApplyNeverOverflows == fault = "none"

----------------------------------------------------------------------------
(* Properties of the compact board, checked under SpecBit *)

\* the masks that have the bit of square sq set
MasksWith(bb, sq) == {m \in MaskNames : sq \in bb[m]}

\* C6: every square's bit is set in at most one of the twelve masks, and
\* place(piece, s) leaves at(s) equal to that piece.
C6_DisjointMasks ==
    /\ \A sq \in Squares : Cardinality(MasksWith(bits, sq)) <= 1
    /\ last.op = "bit_place" => bit_at(bits, last.from) = Some(last.piece)

\* a piece placed on a square that held a piece of another kind
C6_Witness ==
    /\ last.op = "bit_place"
    /\ bit_at(prev, last.from) # None
    /\ bit_at(prev, last.from) # Some(last.piece)
    /\ bit_at(bits, last.from) = Some(last.piece)
    /\ Cardinality(MasksWith(bits, last.from)) = 1

----------------------------------------------------------------------------
(* Properties of move generation, checked under SpecGen *)

Generated == last.op = "generate"

\* the destinations generated for the piece on square s
DestsFrom(s) == {gen[i].to : i \in {j \in 1 .. Len(gen) : gen[j].from = s}}

\* the piece on square s is of kind k and of the side to move
Moves(s, kinds) ==
    /\ board.pieces[s] \in kinds
    /\ board.white_to_move = (board.pieces[s] \in WhitePieces)

\* square t holds a piece of the colour opposite to the piece on s
Opposite(s, t) ==
    /\ board.pieces[t] # Null
    /\ (board.pieces[t] \in WhitePieces) # (board.pieces[s] \in WhitePieces)

EmptyOrOpposite(s, t) == board.pieces[t] = Null \/ Opposite(s, t)

\* the square k steps from s in direction (dr, df), if it is on the board
StepSquare(s, dr, df, k) ==
    LET r == (s \div 8) + k * dr
        f == (s % 8) + k * df
    IN  IF r \in 0 .. 7 /\ f \in 0 .. 7 THEN Some(r * 8 + f) ELSE None

\* the destinations along one ray: every empty square before the first
\* occupied one, and that one if it holds a piece of the opposite colour
RayDests(s, dr, df) ==
    {t \in Squares : \E k \in 1 .. 7 :
        /\ StepSquare(s, dr, df, k) = Some(t)
        /\ \A j \in 1 .. (k - 1) : board.pieces[Unwrap(StepSquare(s, dr, df, j))] = Null
        /\ EmptyOrOpposite(s, t)}

OrthogonalRays == {<<0, -1>>, <<0, 1>>, <<-1, 0>>, <<1, 0>>}

DiagonalRays == {<<1, 1>>, <<1, -1>>, <<-1, 1>>, <<-1, -1>>}

RaysDests(s, rays) == UNION {RayDests(s, d[1], d[2]) : d \in rays}

\* C7: for a rook of either colour on any square the destinations are, along
\* each orthogonal ray, exactly every empty square before the first occupied
\* square plus that square if and only if it holds an opposite-colour piece.
C7_RookRays ==
    Generated =>
        \A s \in Squares : Moves(s, {"RookWhite", "RookBlack"}) =>
            DestsFrom(s) = RaysDests(s, OrthogonalRays)

\* C8: a bishop's destinations include the reachable squares along all four
\* diagonal directions, a rook's those along all four orthogonal directions,
\* and a queen's are the union of the rook pattern and the bishop pattern.
C8_AllFourRays ==
    Generated =>
        \A s \in Squares :
            /\ Moves(s, {"BishopWhite", "BishopBlack"}) =>
                  \A d \in DiagonalRays : RayDests(s, d[1], d[2]) \subseteq DestsFrom(s)
            /\ Moves(s, {"RookWhite", "RookBlack"}) =>
                  \A d \in OrthogonalRays : RayDests(s, d[1], d[2]) \subseteq DestsFrom(s)
            /\ Moves(s, {"QueenWhite", "QueenBlack"}) =>
                  DestsFrom(s) = RaysDests(s, OrthogonalRays \cup DiagonalRays)

KnightOffsets == {<<1, 2>>, <<1, -2>>, <<-1, 2>>, <<-1, -2>>,
                  <<2, 1>>, <<2, -1>>, <<-2, 1>>, <<-2, -1>>}

KingOffsets == {<<1, 1>>, <<1, 0>>, <<1, -1>>, <<0, 1>>,
                <<0, -1>>, <<-1, 1>>, <<-1, 0>>, <<-1, -1>>}

\* the on-board squares at the given rank/file offsets from s that are empty
\* or hold a piece of the opposite colour
OffsetDests(s, offsets) ==
    {t \in Squares : /\ \E d \in offsets : StepSquare(s, d[1], d[2], 1) = Some(t)
                     /\ EmptyOrOpposite(s, t)}

\* C9: for a knight of either colour on any square the destinations are
\* exactly the on-board squares at the eight knight offsets that are empty or
\* hold an opposite-colour piece.
C9_KnightDests ==
    Generated =>
        \A s \in Squares : Moves(s, {"KnightWhite", "KnightBlack"}) =>
            DestsFrom(s) = OffsetDests(s, KnightOffsets)

\* C10: for a king of either colour on any square the destinations are
\* exactly the on-board adjacent squares that are empty or hold an
\* opposite-colour piece.
C10_KingDests ==
    Generated =>
        \A s \in Squares : Moves(s, {"KingWhite", "KingBlack"}) =>
            DestsFrom(s) = OffsetDests(s, KingOffsets)

\* the rank direction a pawn of the colour of the piece on s advances in
Forward(s) == IF board.pieces[s] \in WhitePieces THEN 1 ELSE -1

\* C11: for a pawn of either colour the square one rank forward is a
\* generated destination if and only if it is on the board (rank 0..7, the
\* first and the eighth rank included) and empty.
C11_PawnForward ==
    Generated =>
        \A s \in Squares : Moves(s, {"PawnWhite", "PawnBlack"}) =>
            \A t \in Squares :
                (s \div 8) + Forward(s) = t \div 8 /\ s % 8 = t % 8 =>
                    (t \in DestsFrom(s) <=> board.pieces[t] = Null)

\* the two forward-diagonal squares of the pawn on s: one rank forward, on a
\* file next to the pawn's
ForwardDiagonals(s) ==
    {t \in Squares : \E df \in {-1, 1} : StepSquare(s, Forward(s), df, 1) = Some(t)}

\* C12: every pawn capture destination is one of the pawn's two
\* forward-diagonal squares, with no wrap-around between the a- and the
\* h-file, and it is generated if and only if that square holds an
\* opposite-colour piece.
C12_PawnCaptures ==
    Generated =>
        \A s \in Squares : Moves(s, {"PawnWhite", "PawnBlack"}) =>
            {t \in DestsFrom(s) : board.pieces[t] # Null}
                = {t \in ForwardDiagonals(s) : Opposite(s, t)}

----------------------------------------------------------------------------
(* Properties of the parsers, checked under SpecFen *)

\* C13: a record of 4, 5 or 6 well-formed fields is accepted and yields a
\* board, a record of fewer than 4 or more than 6 fields is an error, for
\* Board::from_fen as for BitBoard::from_fen_string.
C13_FieldCount ==
    last.op \in {"from_fen", "from_fen_string"} =>
        (fault = "none" <=> Len(fen) \in 4 .. 6)

----------------------------------------------------------------------------
(* Properties of the castling rights, checked under SpecRights *)

Rights(b) == <<b.can_white_castle_king_side, b.can_white_castle_queen_side,
               b.can_black_castle_king_side, b.can_black_castle_queen_side>>

\* C14: in every dense board reachable from blank() or from_fen of an
\* accepted text by place, clear and apply, all four castling rights are
\* enabled: the parse never turns one off, apply, place and clear leave them
\* unchanged, and to_fen writes the castling field as KQkq, never as '-'.
C14_RightsAlwaysOn ==
    /\ Rights(board) = <<TRUE, TRUE, TRUE, TRUE>>
    /\ last.op \in {"apply", "place", "clear"} => Rights(board) = Rights(prev)
    /\ to_fen(board).fields[3] = <<"K", "Q", "k", "q">>

\* a position parsed from a text whose castling field is '-', a move applied
\* to it, and the text written back with every right
C14_Witness ==
    /\ fen # <<>>
    /\ fen[3] = <<"-">>
    /\ last.op = "apply"
    /\ prev.pieces[last.from] # Null
    /\ to_fen(board).ok
    /\ to_fen(board).fields[3] = <<"K", "Q", "k", "q">>

====
